---- MODULE Spec2Model ----
(***************************************************************************)
(* The document transformation pipeline of deliverance-star: the build     *)
(* script (offline driver, NavigationMenu.tsx lines 70-256) and the        *)
(* load-time App effect (inline driver, part_001 lines 36-187), and the    *)
(* App that loads the build script's output and shows the footnote         *)
(* popover (part_001 lines 353-366, 597-641, 791-797).                     *)
(*                                                                         *)
(* Text is modelled character by character: a string is a sequence of      *)
(* one-character strings, so that the regular expressions, String.split,   *)
(* String.includes and the slug replacements are computed as the code      *)
(* computes them.                                                          *)
(***************************************************************************)
EXTENDS Integers, Sequences, FiniteSets, TLC

VARIABLES
    source,            \* book.md, the raw markdown (bookContent)
    rendererIds,       \* the id the markup renderer gives the k-th heading (<<>>: none)
    mode,              \* which driver is running: "offline" (build script) or "inline" (App effect)
    pc,                \* position of the running driver
    footnoteMap,       \* footnoteMap: id -> {id, content}
    processedContent,  \* processedContent
    footnoteRefs,      \* footnoteRefs: sequence of {placeholder, id, number}
    doc,               \* doc.body: the materialized tree
    tree,              \* tree: the navigation tree being built
    idCounts,          \* idCounts: own properties of the counter object
    hIndex,            \* number of headings the headings.forEach has visited
    rIndex,            \* number of references the footnoteRefs.forEach has visited
    artifact,          \* what the build script wrote: book.html and book-metadata.json
    app,               \* what the App effect set: innerHTML, contentTree, footnotes
    lastIndex,         \* lastIndex of the running module's two global regular expressions
    previous,          \* what the App effect produced the time before, if it ran before
    contentHtml,       \* pre-rendered App: contentRef.current.innerHTML
    contentTree,       \* pre-rendered App: contentTree
    footnotes,         \* pre-rendered App: footnotes
    activeFootnote,    \* pre-rendered App: activeFootnote
    event              \* pre-rendered App: the last event its footnote handlers received

\* the state of the pre-rendered App
appVars == <<contentHtml, contentTree, footnotes, activeFootnote, event>>

vars == <<source, rendererIds, mode, pc, footnoteMap, processedContent, footnoteRefs,
          doc, tree, idCounts, hIndex, rIndex, artifact, app, lastIndex, previous,
          contentHtml, contentTree, footnotes, activeFootnote, event>>

----------------------------------------------------------------------------
(* Bounds of the model.                                                    *)

\* longest text of the linker specification, in tokens
MaxTokens == 3
\* most heading blocks of the heading specification
MaxHeadings == 3
\* most blocks of the paragraph specification
MaxBlocks == 3
\* longest source of the extractor specification, in parts
MaxParts == 4
\* most blocks of the heading text specification
MaxTextBlocks == 3

----------------------------------------------------------------------------
(* Characters and strings.                                                 *)

Digits == {"0", "1", "2", "3", "4", "5", "6", "7", "8", "9"}

Whitespace == {" ", "\n"}

Letters == {"a", "b", "c", "d", "f", "n", "o", "p", "r", "s", "t", "u", "x"}

UpperCase == {"A", "P"}

\* \w of the slug expression: letters, digits and underscore
WordChars == Letters \cup UpperCase \cup Digits \cup {"_"}

\* s[i..] starts with p
StartsWithAt(s, p, i) ==
    /\ i + Len(p) - 1 <= Len(s)
    /\ \A k \in 1..Len(p) : s[i + k - 1] = p[k]

\* least element of a non-empty set of integers
MinOf(S) == CHOOSE x \in S : \A y \in S : x <= y

\* String.prototype.indexOf(p, from): first position >= from where p occurs, 0 if none
IndexOfFrom(s, p, from) ==
    LET hits == {i \in from..(Len(s) - Len(p) + 1) : StartsWithAt(s, p, i)}
    IN  IF hits = {} THEN 0 ELSE MinOf(hits)

\* String.prototype.includes
Includes(s, p) == IndexOfFrom(s, p, 1) # 0

\* String.prototype.split(p) for a non-empty separator: the pieces between the
\* successive non-overlapping occurrences of p, scanning left to right
RECURSIVE SplitOn(_, _)
SplitOn(s, p) ==
    LET i == IndexOfFrom(s, p, 1)
    IN  IF i = 0 THEN <<s>>
        ELSE <<SubSeq(s, 1, i - 1)>> \o SplitOn(SubSeq(s, i + Len(p), Len(s)), p)

\* String.prototype.trim
RECURSIVE TrimLeft(_)
TrimLeft(s) ==
    IF s # <<>> /\ Head(s) \in Whitespace THEN TrimLeft(Tail(s)) ELSE s

RECURSIVE TrimRight(_)
TrimRight(s) ==
    IF s # <<>> /\ s[Len(s)] \in Whitespace THEN TrimRight(SubSeq(s, 1, Len(s) - 1)) ELSE s

Trim(s) == TrimRight(TrimLeft(s))

\* concatenation of a sequence of strings
RECURSIVE Concat(_)
Concat(ss) == IF ss = <<>> THEN <<>> ELSE Head(ss) \o Concat(Tail(ss))

\* Number.prototype.toString of a natural number
RECURSIVE ToDecimal(_)
ToDecimal(n) ==
    LET d == CHOOSE c \in Digits :
                 c = <<"0", "1", "2", "3", "4", "5", "6", "7", "8", "9">>[(n % 10) + 1]
    IN  IF n < 10 THEN <<d>> ELSE ToDecimal(n \div 10) \o <<d>>

\* length of the run of digits that starts at s[i]
RECURSIVE DigitRun(_, _)
DigitRun(s, i) ==
    IF i <= Len(s) /\ s[i] \in Digits THEN 1 + DigitRun(s, i + 1) ELSE 0

----------------------------------------------------------------------------
(* The two regular expressions (NavigationMenu.tsx 80-81, part_001 10-11). *)

\* FOOTNOTE_REF_REGEX = /\[\^(\d+)\]/ tried at position i: the length of the
\* match, 0 if it does not match there
RefMatchLen(s, i) ==
    LET d == DigitRun(s, i + 2)
    IN  IF /\ i + 3 <= Len(s)
           /\ s[i] = "[" /\ s[i + 1] = "^"
           /\ d >= 1
           /\ i + 2 + d <= Len(s) /\ s[i + 2 + d] = "]"
        THEN 3 + d ELSE 0

\* first position >= from holding the character c, 0 if none
FindChar(s, c, from) ==
    LET hits == {i \in from..Len(s) : s[i] = c}
    IN  IF hits = {} THEN 0 ELSE MinOf(hits)

\* FOOTNOTE_CONTENT_REGEX = /\[(\d+)\]:([^\[]*?)\[\/(\d+)\]/ tried at position i.
\* The body cannot hold "[", so it ends at the first "[" after the colon, and
\* that "[" must open the closing label.  len = 0: no match at i.
DefMatchAt(s, i) ==
    LET d1    == DigitRun(s, i + 1)
        body  == i + 3 + d1
        j     == FindChar(s, "[", body)
        d3    == DigitRun(s, j + 2)
        none  == [len |-> 0, number |-> <<>>, body |-> <<>>, closing |-> <<>>]
    IN  IF /\ i <= Len(s) /\ s[i] = "["
           /\ d1 >= 1
           /\ i + 2 + d1 <= Len(s)
           /\ s[i + 1 + d1] = "]" /\ s[i + 2 + d1] = ":"
           /\ j # 0
           /\ j + 1 <= Len(s) /\ s[j + 1] = "/"
           /\ d3 >= 1
           /\ j + 2 + d3 <= Len(s) /\ s[j + 2 + d3] = "]"
        THEN [len     |-> j + 2 + d3 - i + 1,
              number  |-> SubSeq(s, i + 1, i + d1),
              body    |-> SubSeq(s, body, j - 1),
              closing |-> SubSeq(s, j + 2, j + 1 + d3)]
        ELSE none

\* where the next match of FOOTNOTE_REF_REGEX at or after position from
\* starts, 0 if there is none
NextRefMatch(s, from) ==
    LET hits == {i \in from..Len(s) : RefMatchLen(s, i) > 0}
    IN  IF hits = {} THEN 0 ELSE MinOf(hits)

\* where the next match of FOOTNOTE_CONTENT_REGEX at or after position from
\* starts, 0 if there is none
NextDefMatch(s, from) ==
    LET hits == {i \in from..Len(s) : DefMatchAt(s, i).len > 0}
    IN  IF hits = {} THEN 0 ELSE MinOf(hits)

----------------------------------------------------------------------------
(* 4.1 Footnote Extractor.                                                 *)

\* marked.parse(footnoteContent): the body rendered on its own, as a paragraph
RenderFootnote(content) ==
    IF content = <<>> THEN <<>> ELSE <<"<p>">> \o content \o <<"</p>", "\n">>

\* the while loop over FOOTNOTE_CONTENT_REGEX.exec(bookContent), from lastIndex
\* `from`: the successive matches, each search resuming after the last match
RECURSIVE DefMatches(_, _)
DefMatches(s, from) ==
    LET i == NextDefMatch(s, from)
    IN  IF i = 0 THEN <<>>
        ELSE <<DefMatchAt(s, i)>> \o DefMatches(s, i + DefMatchAt(s, i).len)

\* SetFootnotes with a slip: an id already in the table keeps its entry
RECURSIVE SetFootnotesKeepingFirst(_, _)
SetFootnotesKeepingFirst(map, ms) ==
    IF ms = <<>> THEN map
    ELSE LET footnoteNumber  == Head(ms).number
             footnoteId      == <<"f", "n">> \o footnoteNumber
             footnoteContent == Trim(Head(ms).body)
             footnoteHtml    == RenderFootnote(footnoteContent)
             entry           == [id |-> footnoteId, content |-> footnoteHtml]
             next == [k \in (DOMAIN map) \cup {footnoteId} |->
                         IF k \in DOMAIN map THEN map[k] ELSE entry]
         IN  SetFootnotesKeepingFirst(next, Tail(ms))

\* footnoteMap.set(footnoteId, {id, content}) for each match in turn: a later
\* match with the same id overwrites the earlier entry
RECURSIVE SetFootnotes(_, _)
SetFootnotes(map, ms) ==
    IF ms = <<>> THEN map
    ELSE LET footnoteNumber  == Head(ms).number
             footnoteId      == <<"f", "n">> \o footnoteNumber
             footnoteContent == Trim(Head(ms).body)
             footnoteHtml    == RenderFootnote(footnoteContent)
             entry           == [id |-> footnoteId, content |-> footnoteHtml]
             next == [k \in (DOMAIN map) \cup {footnoteId} |->
                         IF k = footnoteId THEN entry ELSE map[k]]
         IN  SetFootnotes(next, Tail(ms))

EmptyMap == [k \in {} |-> <<>>]

\* the whole loop, FOOTNOTE_CONTENT_REGEX.lastIndex being `from` when it starts
\* (lastIndex counts from 0, positions from 1)
ExtractFootnotes(s, from) == SetFootnotes(EmptyMap, DefMatches(s, from + 1))

\* where the last match found from lastIndex `from` ended, `from` if there is none
RECURSIVE EndOfLastMatch(_, _)
EndOfLastMatch(s, from) ==
    LET i == NextDefMatch(s, from + 1)
    IN  IF i = 0 THEN from ELSE EndOfLastMatch(s, i + DefMatchAt(s, i).len - 1)

\* ExecLoopLastIndex with a slip: the loop is left at the last match, without
\* the call of exec that finds nothing
ExecLoopLastIndexAtLastMatch(s, from) == EndOfLastMatch(s, from)

\* FOOTNOTE_CONTENT_REGEX.lastIndex when the loop is over: the loop ends on the
\* call of exec that finds no match, and that call sets lastIndex to 0
ExecLoopLastIndex(s, from) ==
    LET end == EndOfLastMatch(s, from)
    IN  IF NextDefMatch(s, end + 1) = 0 THEN 0 ELSE end

\* processedContent.replace(FOOTNOTE_REF_REGEX, callback), from position i:
\* every marker becomes its placeholder "fn" + number, and one record is pushed
\* per marker, in source order
RECURSIVE ReplaceRefs(_, _)
ReplaceRefs(s, from) ==
    LET i == NextRefMatch(s, from)
    IN  IF i = 0 THEN [content |-> SubSeq(s, from, Len(s)), refs |-> <<>>]
        ELSE LET n           == RefMatchLen(s, i)
                 number      == SubSeq(s, i + 2, i + n - 2)
                 footnoteId  == <<"f", "n">> \o number
                 placeholder == footnoteId
                 rest        == ReplaceRefs(s, i + n)
             IN  [content |-> SubSeq(s, from, i - 1) \o placeholder \o rest.content,
                  refs    |-> <<[placeholder |-> placeholder,
                                 id          |-> footnoteId,
                                 number      |-> number]>> \o rest.refs]

\* processedContent.replace(FOOTNOTE_CONTENT_REGEX, ''), from position i: one
\* left-to-right pass, the text after a removed block is not scanned again
\* together with the text before it
RECURSIVE RemoveDefinitions(_, _)
RemoveDefinitions(s, from) ==
    LET i == NextDefMatch(s, from)
    IN  IF i = 0 THEN SubSeq(s, from, Len(s))
        ELSE SubSeq(s, from, i - 1) \o RemoveDefinitions(s, i + DefMatchAt(s, i).len)

----------------------------------------------------------------------------
(* Markup Renderer and Tree Materializer: marked.parse followed by         *)
(* new JSDOM(html) / DOMParser.parseFromString.  The materialized body is  *)
(* the sequence of its block elements; an element is its tag, id, class    *)
(* and child nodes.                                                        *)

BlockSeparator == <<"\n", "\n">>

\* a raw-HTML block that the renderer passes through: a paragraph element
\* whose only text is white space
RawEmptyParagraph == <<"<", "p", ">", " ", "<", "/", "p", ">">>

TextNode(t) ==
    [kind |-> "text", text |-> t, cls |-> "", fid |-> <<>>, role |-> "",
     tabindex |-> "", aria |-> <<>>, href |-> <<>>]

Element(tag, id, kids) == [tag |-> tag, id |-> id, cls |-> "", kids |-> kids]

\* number of "#" characters that open the block
RECURSIVE HashRun(_, _)
HashRun(s, i) == IF i <= Len(s) /\ s[i] = "#" THEN 1 + HashRun(s, i + 1) ELSE 0

\* an ATX heading line: one to six "#", then white space or the end of the line
IsHeadingBlock(b) ==
    LET h == HashRun(b, 1)
    IN  /\ h \in 1..6
        /\ (Len(b) = h \/ b[h + 1] \in Whitespace)

\* the blocks of the rendered fragment, in document order; nth is the number
\* of headings rendered before these blocks
RECURSIVE RenderBlocks(_, _, _)
RenderBlocks(blocks, rids, nth) ==
    IF blocks = <<>> THEN <<>>
    ELSE LET b == Trim(Head(blocks))
             h == HashRun(b, 1)
         IN  IF b = <<>> THEN RenderBlocks(Tail(blocks), rids, nth)
             ELSE IF IsHeadingBlock(b)
             THEN LET text == Trim(SubSeq(b, h + 1, Len(b)))
                      rid  == IF nth + 1 <= Len(rids) THEN rids[nth + 1] ELSE <<>>
                      kids == IF text = <<>> THEN <<>> ELSE <<TextNode(text)>>
                  IN  <<Element(<<"h">> \o ToDecimal(h), rid, kids)>>
                          \o RenderBlocks(Tail(blocks), rids, nth + 1)
             ELSE IF b = RawEmptyParagraph
             THEN <<Element(<<"p">>, <<>>, <<TextNode(<<" ">>)>>)>>
                      \o RenderBlocks(Tail(blocks), rids, nth)
             ELSE <<Element(<<"p">>, <<>>, <<TextNode(b)>>)>>
                      \o RenderBlocks(Tail(blocks), rids, nth)

\* marked.parse(processedContent) then the DOM parse: doc.body
Materialize(content, rids) == RenderBlocks(SplitOn(content, BlockSeparator), rids, 0)

\* Node.textContent of an element: the text of its descendants, in order
RECURSIVE KidsText(_)
KidsText(kids) == IF kids = <<>> THEN <<>> ELSE Head(kids).text \o KidsText(Tail(kids))

TextContent(el) == KidsText(el.kids)

IsHeading(el) == Head(el.tag) = "h"

IsParagraph(el) == el.tag = <<"p">>

\* doc.querySelectorAll('h1, h2, h3, h4, h5, h6'): positions of the headings in doc
HeadingPositions(d) ==
    LET RECURSIVE Pos(_)
        Pos(i) == IF i > Len(d) THEN <<>>
                  ELSE IF IsHeading(d[i]) THEN <<i>> \o Pos(i + 1) ELSE Pos(i + 1)
    IN  Pos(1)

\* doc.querySelectorAll('p'): positions of the paragraphs in doc
ParagraphPositions(d) ==
    LET RECURSIVE Pos(_)
        Pos(i) == IF i > Len(d) THEN <<>>
                  ELSE IF IsParagraph(d[i]) THEN <<i>> \o Pos(i + 1) ELSE Pos(i + 1)
    IN  Pos(1)

\* doc.body.innerHTML: the serialization of the tree.  In the string, empty
\* text nodes leave no trace and adjacent text nodes run together.
RECURSIVE SerializeKids(_)
SerializeKids(kids) ==
    IF kids = <<>> THEN <<>>
    ELSE LET k    == Head(kids)
             rest == SerializeKids(Tail(kids))
         IN  IF k.kind = "text" /\ k.text = <<>> THEN rest
             ELSE IF k.kind = "text" /\ rest # <<>> /\ Head(rest).kind = "text"
             THEN <<TextNode(k.text \o Head(rest).text)>> \o Tail(rest)
             ELSE <<k>> \o rest

InnerHTML(d) == [i \in 1..Len(d) |-> [d[i] EXCEPT !.kids = SerializeKids(@)]]

----------------------------------------------------------------------------
(* 4.2 Heading Indexer (NavigationMenu.tsx 126-160, part_001 80-113).      *)

\* String.prototype.toLowerCase, one character
ToLowerChar(c) == IF c = "A" THEN "a" ELSE IF c = "P" THEN "p" ELSE c

ToLowerCase(s) == [i \in 1..Len(s) |-> ToLowerChar(s[i])]

\* .replace(/[^\w\s-]/g, ''): drop what is no word character, white space or hyphen
RECURSIVE StripPunctuation(_)
StripPunctuation(s) ==
    IF s = <<>> THEN <<>>
    ELSE IF Head(s) \in WordChars \cup Whitespace \cup {"-"}
         THEN <<Head(s)>> \o StripPunctuation(Tail(s))
         ELSE StripPunctuation(Tail(s))

\* .replace(/\s+/g, '-'): every run of white space becomes one hyphen
RECURSIVE SpacesToHyphen(_)
SpacesToHyphen(s) ==
    IF s = <<>> THEN <<>>
    ELSE IF Head(s) \in Whitespace
         THEN <<"-">> \o SpacesToHyphen(TrimLeft(s))
         ELSE <<Head(s)>> \o SpacesToHyphen(Tail(s))

\* .replace(/-+/g, '-'): every run of hyphens becomes one hyphen
RECURSIVE CollapseHyphens(_)
CollapseHyphens(s) ==
    IF s = <<>> THEN <<>>
    ELSE IF Head(s) = "-" /\ Len(s) >= 2 /\ s[2] = "-"
         THEN CollapseHyphens(Tail(s))
         ELSE <<Head(s)>> \o CollapseHyphens(Tail(s))

\* the id generated from the heading text when the element has none
Slug(text) == Trim(CollapseHyphens(SpacesToHyphen(StripPunctuation(ToLowerCase(text)))))

\* idCounts = {} is a plain object: besides its own properties, a lookup finds
\* the properties inherited from Object.prototype.  Of those, "constructor" is
\* the one an id can spell (the others hold an upper-case letter).
InheritedKeys == {<<"c", "o", "n", "s", "t", "r", "u", "c", "t", "o", "r">>}

\* a value held by the counter object: a number, or NaN
Count(n) == [nan |-> FALSE, n |-> n]

\* the value a function object takes under ++ : not a number
NaN == [nan |-> TRUE, n |-> 0]

\* `${idCounts[id]}`
NumberToString(v) == IF v.nan THEN <<"N", "a", "N">> ELSE ToDecimal(v.n)

\* if (idCounts[id]): own property first, then the prototype chain.  NaN and 0
\* are falsy, the inherited function is truthy.
IsTruthyCount(counts, id) ==
    IF id \in DOMAIN counts THEN ~counts[id].nan /\ counts[id].n # 0
    ELSE id \in InheritedKeys

\* idCounts[id]++ : the numeric value of idCounts[id], plus one
Incremented(counts, id) ==
    IF id \in DOMAIN counts /\ ~counts[id].nan THEN Count(counts[id].n + 1) ELSE NaN

SetCount(counts, id, v) ==
    [k \in (DOMAIN counts) \cup {id} |-> IF k = id THEN v ELSE counts[k]]

\* parseInt(heading.tagName.charAt(1), 10)
DigitValue(c) ==
    CHOOSE n \in 0..9 : ToDecimal(n) = <<c>>

\* VisitHeading with a slip: the final id is set on the element only when the
\* renderer gave it none
VisitHeadingKeepingRendererId(d, counts, t, pos) ==
    LET heading == d[pos]
        level   == DigitValue(heading.tag[2])
        text    == Trim(TextContent(heading))
        id0     == IF heading.id # <<>> THEN heading.id ELSE Slug(text)
        seen    == IsTruthyCount(counts, id0)
        n       == Incremented(counts, id0)
        id      == IF seen THEN id0 \o <<"-">> \o NumberToString(n) ELSE id0
        counts1 == IF seen THEN SetCount(counts, id0, n) ELSE SetCount(counts, id0, Count(1))
    IN  [doc      |-> IF heading.id # <<>> THEN d ELSE [d EXCEPT ![pos].id = id],
         idCounts |-> counts1,
         tree     |-> Append(t, [level |-> level, text |-> text, id |-> id])]

\* the body of headings.forEach for the heading at position pos of d: the new
\* doc, counter object and tree
VisitHeading(d, counts, t, pos) ==
    LET heading == d[pos]
        level   == DigitValue(heading.tag[2])
        text    == Trim(TextContent(heading))
        id0     == IF heading.id # <<>> THEN heading.id ELSE Slug(text)
        seen    == IsTruthyCount(counts, id0)
        n       == Incremented(counts, id0)
        id      == IF seen THEN id0 \o <<"-">> \o NumberToString(n) ELSE id0
        counts1 == IF seen THEN SetCount(counts, id0, n) ELSE SetCount(counts, id0, Count(1))
    IN  [doc      |-> [d EXCEPT ![pos].id = id],
         idCounts |-> counts1,
         tree     |-> Append(t, [level |-> level, text |-> text, id |-> id])]

----------------------------------------------------------------------------
(* 4.3 Footnote Linker (NavigationMenu.tsx 162-207, part_001 115-160).     *)

\* Array.prototype.reverse
Reverse(q) == [i \in 1..Len(q) |-> q[Len(q) + 1 - i]]

\* FootnoteRefSpan with a slip: data-footnote-id is given the number, not the id
FootnoteRefSpanByNumber(id, number) ==
    [kind |-> "span", text |-> number, cls |-> "footnote-ref", fid |-> number,
     role |-> "button", tabindex |-> "0",
     aria |-> <<"F", "o", "o", "t", "n", "o", "t", "e", " ">> \o number, href |-> <<>>]

\* the span element created for a reference
FootnoteRefSpan(id, number) ==
    [kind |-> "span", text |-> number, cls |-> "footnote-ref", fid |-> id,
     role |-> "button", tabindex |-> "0",
     aria |-> <<"F", "o", "o", "t", "n", "o", "t", "e", " ">> \o number, href |-> <<>>]

\* LinkTextNode with a slip: the text after the placeholder is inserted even
\* when it is empty
LinkTextNodeAlwaysAfter(node, ref) ==
    LET parts == SplitOn(node.text, ref.placeholder)
    IN  IF Len(parts) = 2
        THEN <<TextNode(parts[1]), FootnoteRefSpan(ref.id, ref.number), TextNode(parts[2])>>
        ELSE <<node>>

\* the body of textNodes.forEach for one collected text node: what stands in
\* its place afterwards.  The node is replaced only when split gives two parts.
LinkTextNode(node, ref) ==
    LET parts == SplitOn(node.text, ref.placeholder)
    IN  IF Len(parts) = 2
        THEN <<TextNode(parts[1]), FootnoteRefSpan(ref.id, ref.number)>>
                 \o (IF parts[2] # <<>> THEN <<TextNode(parts[2])>> ELSE <<>>)
        ELSE <<node>>

\* the tree walker collects the text nodes that include the placeholder before
\* any is replaced, so the nodes created for this reference are not visited.
\* The text inside a footnote-ref span is its number, digits only, and never
\* includes a placeholder.
RECURSIVE LinkKids(_, _)
LinkKids(kids, ref) ==
    IF kids = <<>> THEN <<>>
    ELSE LET k == Head(kids)
         IN  (IF k.kind = "text" /\ Includes(k.text, ref.placeholder)
              THEN LinkTextNode(k, ref) ELSE <<k>>)
                 \o LinkKids(Tail(kids), ref)

\* the body of footnoteRefs.forEach for one reference
LinkReference(d, ref) == [i \in 1..Len(d) |-> [d[i] EXCEPT !.kids = LinkKids(@, ref)]]

----------------------------------------------------------------------------
(* 4.4 Paragraph Anchor Injector (NavigationMenu.tsx 209-234).             *)

ParagraphAnchor(paragraphId) ==
    [kind |-> "a", text |-> <<"link-emoji">>, cls |-> "paragraph-anchor", fid |-> <<>>,
     role |-> "", tabindex |-> "", aria |-> <<>>, href |-> <<"#">> \o paragraphId]

\* AnchorFrom with a slip: paragraphIndex++ stands before the skip of empty
\* paragraphs
RECURSIVE AnchorFromCountingEmpty(_, _, _)
AnchorFromCountingEmpty(d, i, paragraphIndex) ==
    IF i > Len(d) THEN d
    ELSE IF ~IsParagraph(d[i]) THEN AnchorFromCountingEmpty(d, i + 1, paragraphIndex)
    ELSE IF TextContent(d[i]) = <<>> \/ Len(Trim(TextContent(d[i]))) = 0
         THEN AnchorFromCountingEmpty(d, i + 1, paragraphIndex + 1)
    ELSE LET paragraphId == <<"p">> \o ToDecimal(paragraphIndex + 1)
             p == [d[i] EXCEPT !.id = paragraphId,
                               !.cls = "paragraph-with-anchor",
                               !.kids = <<ParagraphAnchor(paragraphId)>> \o @]
         IN  AnchorFromCountingEmpty([d EXCEPT ![i] = p], i + 1, paragraphIndex + 1)

\* paragraphs.forEach from position i of d, paragraphIndex being the count so far
RECURSIVE AnchorFrom(_, _, _)
AnchorFrom(d, i, paragraphIndex) ==
    IF i > Len(d) THEN d
    ELSE IF ~IsParagraph(d[i]) THEN AnchorFrom(d, i + 1, paragraphIndex)
    ELSE IF TextContent(d[i]) = <<>> \/ Len(Trim(TextContent(d[i]))) = 0
         THEN AnchorFrom(d, i + 1, paragraphIndex)
    ELSE LET paragraphId == <<"p">> \o ToDecimal(paragraphIndex + 1)
             p == [d[i] EXCEPT !.id = paragraphId,
                               !.cls = "paragraph-with-anchor",
                               !.kids = <<ParagraphAnchor(paragraphId)>> \o @]
         IN  AnchorFrom([d EXCEPT ![i] = p], i + 1, paragraphIndex + 1)

AnchorParagraphs(d) == AnchorFrom(d, 1, 0)

----------------------------------------------------------------------------
(* Sources.  A source is a concatenation of tokens; each specification     *)
(* draws its sources from the tokens its claims are about.                 *)

\* all sequences of at most n elements of S
RECURSIVE SeqsUpTo(_, _)
SeqsUpTo(S, n) ==
    IF n = 0 THEN {<<>>}
    ELSE LET shorter == SeqsUpTo(S, n - 1)
         IN  shorter \cup {Append(q, x) : q \in {r \in shorter : Len(r) = n - 1}, x \in S}

Ref1 == <<"[", "^", "1", "]">>

Ref10 == <<"[", "^", "1", "0", "]">>

Def1 == <<"[", "1", "]", ":", "d", "[", "/", "1", "]">>

Def10 == <<"[", "1", "0", "]", ":", "e", "[", "/", "1", "0", "]">>

\* tokens of the linker specification: two markers of which one placeholder is
\* a prefix of the other, prose (a letter, a digit), a paragraph break and a
\* heading mark
LinkerTokens ==
    {Ref1, Ref10, <<"a">>, <<"0">>, BlockSeparator, <<"#", " ">>}

\* the definitions that close a source of the linker specification: none, of
\* footnote 1, of both footnotes
LinkerDefinitions == {<<>>, Def1, Def1 \o Def10}

\* parts of the extractor specification: the opening of a definition of
\* footnote 1 with one body or another, its closing, a marker, a heading mark
DefOpenD == <<"[", "1", "]", ":", "d">>

DefOpenB == <<"[", "1", "]", ":", "b">>

DefClose == <<"[", "/", "1", "]">>

ExtractorParts == {DefOpenD, DefOpenB, DefClose, Ref1, <<"#", " ">>}

\* blocks of the heading text specification: headings whose slug ends on a
\* hyphen, a heading that spells a paragraph id, a heading with a marker, a
\* paragraph with a marker and its definition
HeadingTextBlocks ==
    {<<"#", " ", "a", " ", "!">>,
     <<"#", " ", "-", " ", "a", " ", "-">>,
     <<"#", " ", "P", "1">>,
     <<"#", " ", "a">> \o Ref1,
     <<"b">> \o Ref1 \o Def1}

\* heading blocks: texts that collide, a text whose slug is the suffixed id of
\* another, an empty heading, a deeper level, a name Object.prototype holds
HeadingBlocks ==
    {<<"#", "#", " ", "A">>,
     <<"#", " ", "a", " ", "2">>,
     <<"#">>,
     <<"#", " ", "c", "o", "n", "s", "t", "r", "u", "c", "t", "o", "r">>,
     <<"a">> \o Ref1 \o Def1}

\* ids the renderer may already have put on a heading (<<>>: none)
RendererIds == {<<>>, <<"a">>}

\* blocks of the paragraph specification
ParagraphBlocks ==
    {<<"a">>, RawEmptyParagraph, <<"b">> \o Ref1 \o Def1, <<"#", " ", "a">>}

\* the blocks joined by blank lines
RECURSIVE JoinBlocks(_)
JoinBlocks(bs) ==
    IF bs = <<>> THEN <<>>
    ELSE IF Len(bs) = 1 THEN Head(bs)
    ELSE Head(bs) \o BlockSeparator \o JoinBlocks(Tail(bs))

NoArtifact == [written |-> FALSE, html |-> <<>>, contentTree |-> <<>>, footnotes |-> EmptyMap]

\* the state of a driver before its first statement
FreshRun ==
    /\ footnoteMap = EmptyMap
    /\ processedContent = <<>>
    /\ footnoteRefs = <<>>
    /\ doc = <<>>
    /\ tree = <<>>
    /\ idCounts = EmptyMap
    /\ hIndex = 0
    /\ rIndex = 0

\* no App effect has run before
NoRun == [ran |-> FALSE, contentTree |-> <<>>, footnotes |-> EmptyMap, footnoteRefs |-> <<>>]

\* activeFootnote: null, or {id, position}; the position is a matter of
\* layout and is left out
Null == [set |-> FALSE, id |-> <<>>]

NoEvent == [type |-> "", key |-> "", cls |-> "", fid |-> <<>>]

\* both regular expressions as the module creates them
NewRegExps == [content |-> 0, ref |-> 0]

InitRun ==
    /\ mode = "offline"
    /\ pc = "extract"
    /\ FreshRun
    /\ artifact = NoArtifact
    /\ app = NoArtifact
    /\ lastIndex = NewRegExps
    /\ previous = NoRun
    /\ contentHtml = <<>>
    /\ contentTree = <<>>
    /\ footnotes = EmptyMap
    /\ activeFootnote = Null
    /\ event = NoEvent

InitLinker ==
    /\ source \in {Concat(ts) \o defs : ts \in SeqsUpTo(LinkerTokens, MaxTokens),
                                        defs \in LinkerDefinitions}
    /\ rendererIds = <<>>
    /\ InitRun

InitExtractor ==
    /\ source \in {Concat(ps) : ps \in SeqsUpTo(ExtractorParts, MaxParts)}
    /\ rendererIds = <<>>
    /\ InitRun

InitHeadingText ==
    /\ source \in {JoinBlocks(bs) : bs \in SeqsUpTo(HeadingTextBlocks, MaxTextBlocks)}
    /\ rendererIds = <<>>
    /\ InitRun

\* the renderer gives an id, or none, to each heading of the blocks
InitHeadings ==
    /\ \E bs \in SeqsUpTo(HeadingBlocks, MaxHeadings) :
          /\ source = JoinBlocks(bs)
          /\ rendererIds \in
                 [1..Cardinality({i \in 1..Len(bs) : IsHeadingBlock(bs[i])}) -> RendererIds]
    /\ InitRun

InitParagraphs ==
    /\ source \in {JoinBlocks(bs) : bs \in SeqsUpTo(ParagraphBlocks, MaxBlocks)}
    /\ rendererIds = <<>>
    /\ InitRun

Init == InitLinker \/ InitHeadings \/ InitParagraphs \/ InitExtractor \/ InitHeadingText

----------------------------------------------------------------------------
(* 4.5 Pipeline Driver: the statements of the build script and of the App  *)
(* effect, in order.                                                       *)

\* the while loop over FOOTNOTE_CONTENT_REGEX.exec (NavigationMenu.tsx 86-96,
\* part_001 38-49)
ExtractDefinitions ==
    /\ pc = "extract"
    /\ footnoteMap' = ExtractFootnotes(source, lastIndex.content)
    /\ lastIndex' = [lastIndex EXCEPT !.content = ExecLoopLastIndex(source, @)]
    /\ pc' = "replace"
    /\ UNCHANGED <<source, rendererIds, mode, processedContent, footnoteRefs, doc, tree,
                   idCounts, hIndex, rIndex, artifact, app, previous, appVars>>

\* processedContent = bookContent.replace(FOOTNOTE_REF_REGEX, ...)
\* (NavigationMenu.tsx 98-107, part_001 51-62).  String.prototype.replace with a
\* global expression starts at 0 whatever lastIndex was and leaves it at 0.
ReplaceReferences ==
    /\ pc = "replace"
    /\ LET r == ReplaceRefs(source, 1)
       IN  /\ processedContent' = r.content
           /\ footnoteRefs' = r.refs
    /\ lastIndex' = [lastIndex EXCEPT !.ref = 0]
    /\ pc' = "remove"
    /\ UNCHANGED <<source, rendererIds, mode, footnoteMap, doc, tree, idCounts, hIndex,
                   rIndex, artifact, app, previous, appVars>>

\* processedContent.replace(FOOTNOTE_CONTENT_REGEX, '')
\* (NavigationMenu.tsx 109-110, part_001 64)
RemoveFootnoteDefinitions ==
    /\ pc = "remove"
    /\ processedContent' = RemoveDefinitions(processedContent, 1)
    /\ lastIndex' = [lastIndex EXCEPT !.content = 0]
    /\ pc' = "render"
    /\ UNCHANGED <<source, rendererIds, mode, footnoteMap, footnoteRefs, doc, tree,
                   idCounts, hIndex, rIndex, artifact, app, previous, appVars>>

\* Render with a slip: idCounts is not made anew, as if the counter object
\* belonged to the module
RenderKeepingCounter ==
    /\ pc = "render"
    /\ doc' = Materialize(processedContent, rendererIds)
    /\ tree' = <<>>
    /\ hIndex' = 0
    /\ pc' = "index"
    /\ UNCHANGED <<source, rendererIds, mode, footnoteMap, processedContent, footnoteRefs,
                   idCounts, rIndex, artifact, app, lastIndex, previous, appVars>>

\* marked.parse, the DOM parse, and the empty tree and idCounts
\* (NavigationMenu.tsx 118-128, part_001 72-81)
Render ==
    /\ pc = "render"
    /\ doc' = Materialize(processedContent, rendererIds)
    /\ tree' = <<>>
    /\ idCounts' = EmptyMap
    /\ hIndex' = 0
    /\ pc' = "index"
    /\ UNCHANGED <<source, rendererIds, mode, footnoteMap, processedContent, footnoteRefs,
                   rIndex, artifact, app,
                   lastIndex, previous, appVars>>

\* one iteration of headings.forEach (NavigationMenu.tsx 130-160, part_001 83-113)
IndexHeading ==
    /\ pc = "index"
    /\ hIndex < Len(HeadingPositions(doc))
    /\ LET r == VisitHeading(doc, idCounts, tree, HeadingPositions(doc)[hIndex + 1])
       IN  /\ doc' = r.doc
           /\ idCounts' = r.idCounts
           /\ tree' = r.tree
    /\ hIndex' = hIndex + 1
    /\ UNCHANGED <<source, rendererIds, mode, pc, footnoteMap, processedContent,
                   footnoteRefs, rIndex, artifact, app,
                   lastIndex, previous, appVars>>

\* LinkerOrder with a slip: the build script forgets the reverse()
LinkerOrderUnreversed(m, refs) == refs

\* the list the linker's forEach runs over: footnoteRefs.reverse() in the build
\* script (NavigationMenu.tsx 164), footnoteRefs itself in the App (part_001 116)
LinkerOrder(m, refs) == IF m = "offline" THEN Reverse(refs) ELSE refs

\* headings.forEach is over; the linker's forEach starts
StartLinking ==
    /\ pc = "index"
    /\ hIndex = Len(HeadingPositions(doc))
    /\ footnoteRefs' = LinkerOrder(mode, footnoteRefs)
    /\ rIndex' = 0
    /\ pc' = "link"
    /\ UNCHANGED <<source, rendererIds, mode, footnoteMap, processedContent, doc, tree,
                   idCounts, hIndex, artifact, app,
                   lastIndex, previous, appVars>>

\* one iteration of footnoteRefs.forEach (NavigationMenu.tsx 164-207,
\* part_001 116-160)
LinkFootnote ==
    /\ pc = "link"
    /\ rIndex < Len(footnoteRefs)
    /\ doc' = LinkReference(doc, footnoteRefs[rIndex + 1])
    /\ rIndex' = rIndex + 1
    /\ UNCHANGED <<source, rendererIds, mode, pc, footnoteMap, processedContent,
                   footnoteRefs, tree, idCounts, hIndex, artifact, app,
                   lastIndex, previous, appVars>>

\* the build script adds the paragraph anchors (NavigationMenu.tsx 209-234)
AddParagraphAnchors ==
    /\ pc = "link"
    /\ mode = "offline"
    /\ rIndex = Len(footnoteRefs)
    /\ doc' = AnchorParagraphs(doc)
    /\ pc' = "write"
    /\ UNCHANGED <<source, rendererIds, mode, footnoteMap, processedContent, footnoteRefs,
                   tree, idCounts, hIndex, rIndex, artifact, app,
                   lastIndex, previous, appVars>>

\* the build script writes book.html and book-metadata.json
\* (NavigationMenu.tsx 236-252)
WriteArtifact ==
    /\ pc = "write"
    /\ mode = "offline"
    /\ artifact' = [written |-> TRUE, html |-> InnerHTML(doc), contentTree |-> tree,
                    footnotes |-> footnoteMap]
    /\ pc' = "done"
    /\ UNCHANGED <<source, rendererIds, mode, footnoteMap, processedContent, footnoteRefs,
                   doc, tree, idCounts, hIndex, rIndex, app,
                   lastIndex, previous, appVars>>

\* the App mounts and its effect starts on the same raw source, with its own
\* footnoteMap, footnoteRefs, tree and idCounts (part_001 36-53, 80-81)
MountApp ==
    /\ pc = "done"
    /\ mode = "offline"
    /\ mode' = "inline"
    /\ pc' = "extract"
    /\ footnoteMap' = EmptyMap
    /\ processedContent' = <<>>
    /\ footnoteRefs' = <<>>
    /\ doc' = <<>>
    /\ tree' = <<>>
    /\ idCounts' = EmptyMap
    /\ hIndex' = 0
    /\ rIndex' = 0
    /\ lastIndex' = NewRegExps
    /\ UNCHANGED <<source, rendererIds, artifact, app, previous, appVars>>

\* the App is mounted once more in the same page and its effect runs again
\* (part_001 36).  Nothing is reset here: what the effect declares anew
\* (footnoteMap, processedContent, footnoteRefs, doc, tree, idCounts) is set by
\* the statement that declares it, and the two regular expressions are the
\* module's (part_001 10-11).
RerunEffect ==
    /\ pc = "done"
    /\ mode = "inline"
    /\ ~previous.ran
    /\ previous' = [ran |-> TRUE, contentTree |-> tree, footnotes |-> footnoteMap,
                    footnoteRefs |-> footnoteRefs]
    /\ pc' = "extract"
    /\ UNCHANGED <<source, rendererIds, mode, footnoteMap, processedContent, footnoteRefs,
                   doc, tree, idCounts, hIndex, rIndex, artifact, app, lastIndex,
                   appVars>>

\* setFootnotes, contentRef.current.innerHTML = doc.body.innerHTML,
\* setContentTree (part_001 162-169)
SetAppState ==
    /\ pc = "link"
    /\ mode = "inline"
    /\ rIndex = Len(footnoteRefs)
    /\ app' = [written |-> TRUE, html |-> InnerHTML(doc), contentTree |-> tree,
               footnotes |-> footnoteMap]
    /\ pc' = "done"
    /\ UNCHANGED <<source, rendererIds, mode, footnoteMap, processedContent, footnoteRefs,
                   doc, tree, idCounts, hIndex, rIndex, artifact,
                   lastIndex, previous, appVars>>

\* the pre-rendered App loads book.html and book-metadata.json: setFootnotes,
\* setContentTree, contentRef.current.innerHTML = bookHtml (part_001 353-366)
LoadApp ==
    /\ pc = "done"
    /\ mode = "offline"
    /\ footnotes' = artifact.footnotes
    /\ contentTree' = artifact.contentTree
    /\ contentHtml' = artifact.html
    /\ pc' = "loaded"
    /\ UNCHANGED <<source, rendererIds, mode, footnoteMap, processedContent, footnoteRefs,
                   doc, tree, idCounts, hIndex, rIndex, artifact, app, lastIndex,
                   previous, activeFootnote, event>>

\* the elements of the content an event can have as its target, the
\* footnote-ref spans and the paragraph anchors, each as what the handlers
\* read of it: its class and its data-footnote-id
Targets(html) ==
    UNION {{[cls |-> html[i].kids[k].cls, fid |-> html[i].kids[k].fid]
               : k \in {j \in 1..Len(html[i].kids) : html[i].kids[j].kind # "text"}}
              : i \in 1..Len(html)}

\* ActiveAfter with a slip: the table is not consulted
ActiveAfterWithoutLookup(target, active, table) ==
    IF target.cls = "footnote-ref" /\ target.fid # <<>>
    THEN [set |-> TRUE, id |-> target.fid]
    ELSE active

\* activeFootnote after a handler has run for an event on target: set only
\* for a footnote-ref whose data-footnote-id is in the table
\* (part_001 600-614, 627-640)
ActiveAfter(target, active, table) ==
    IF target.cls = "footnote-ref" /\ target.fid # <<>> /\ target.fid \in DOMAIN table
    THEN [set |-> TRUE, id |-> target.fid]
    ELSE active

\* handleFootnoteInteraction, for a click or a touch (part_001 598-623)
HandleFootnoteInteraction ==
    /\ pc = "loaded"
    /\ \E target \in Targets(contentHtml), type \in {"click", "touchstart"} :
          /\ event' = [type |-> type, key |-> "", cls |-> target.cls, fid |-> target.fid]
          /\ activeFootnote' = ActiveAfter(target, activeFootnote, footnotes)
    /\ UNCHANGED <<source, rendererIds, mode, pc, footnoteMap, processedContent,
                   footnoteRefs, doc, tree, idCounts, hIndex, rIndex, artifact, app,
                   lastIndex, previous, contentHtml, contentTree, footnotes>>

\* handleFootnoteKeyPress (part_001 625-641): only Enter and the space key act
HandleFootnoteKeyPress ==
    /\ pc = "loaded"
    /\ \E target \in Targets(contentHtml), key \in {"Enter", " ", "a"} :
          /\ event' = [type |-> "keydown", key |-> key, cls |-> target.cls,
                       fid |-> target.fid]
          /\ activeFootnote' = IF key \in {"Enter", " "}
                               THEN ActiveAfter(target, activeFootnote, footnotes)
                               ELSE activeFootnote
    /\ UNCHANGED <<source, rendererIds, mode, pc, footnoteMap, processedContent,
                   footnoteRefs, doc, tree, idCounts, hIndex, rIndex, artifact, app,
                   lastIndex, previous, contentHtml, contentTree, footnotes>>

\* what is rendered for the popover (part_001 791-797): nothing, or the
\* content of the active footnote
NoPopover == [shown |-> FALSE, content |-> <<>>]

Popover ==
    IF activeFootnote.set /\ activeFootnote.id \in DOMAIN footnotes
    THEN [shown |-> TRUE, content |-> footnotes[activeFootnote.id].content]
    ELSE NoPopover

\* onClose of the popover: setActiveFootnote(null) (part_001 794)
ClosePopover ==
    /\ pc = "loaded"
    /\ Popover.shown
    /\ activeFootnote' = Null
    /\ UNCHANGED <<source, rendererIds, mode, pc, footnoteMap, processedContent,
                   footnoteRefs, doc, tree, idCounts, hIndex, rIndex, artifact, app,
                   lastIndex, previous, contentHtml, contentTree, footnotes, event>>

Next ==
    \/ ExtractDefinitions
    \/ ReplaceReferences
    \/ RemoveFootnoteDefinitions
    \/ Render
    \/ IndexHeading
    \/ StartLinking
    \/ LinkFootnote
    \/ AddParagraphAnchors
    \/ WriteArtifact
    \/ MountApp
    \/ SetAppState
    \/ RerunEffect
    \/ LoadApp
    \/ HandleFootnoteInteraction
    \/ HandleFootnoteKeyPress
    \/ ClosePopover

Spec == Init /\ [][Next]_vars

SpecLinker == InitLinker /\ [][Next]_vars

SpecHeadings == InitHeadings /\ [][Next]_vars

SpecParagraphs == InitParagraphs /\ [][Next]_vars

SpecExtractor == InitExtractor /\ [][Next]_vars

SpecHeadingText == InitHeadingText /\ [][Next]_vars

----------------------------------------------------------------------------
(* What the source says, read without placeholders: every reference marker *)
(* [^N] is kept as one indivisible element, so that no prose and no other  *)
(* marker can be mistaken for it.  The claims about the linker compare the *)
(* tree the code produces with this reading.                               *)

RECURSIVE JoinStr(_)
JoinStr(cs) == IF cs = <<>> THEN "" ELSE Head(cs) \o JoinStr(Tail(cs))

\* the element standing for the marker [^N]
MarkerOf(number) == "[^" \o JoinStr(number) \o "]"

\* the source with every marker replaced by its element
RECURSIVE MarkRefs(_, _)
MarkRefs(s, from) ==
    LET i == NextRefMatch(s, from)
        n == RefMatchLen(s, i)
    IN  IF i = 0 THEN SubSeq(s, from, Len(s))
        ELSE SubSeq(s, from, i - 1) \o <<MarkerOf(SubSeq(s, i + 2, i + n - 2))>>
                 \o MarkRefs(s, i + n)

\* the labels of the markers of the source, in source order
SourceNumbers == LET refs == ReplaceRefs(source, 1).refs
                 IN  [k \in 1..Len(refs) |-> refs[k].number]

NumberSet == {SourceNumbers[k] : k \in 1..Len(SourceNumbers)}

IsMarker(e) == \E n \in NumberSet : MarkerOf(n) = e

NumberOfMarker(e) == CHOOSE n \in NumberSet : MarkerOf(n) = e

\* the blocks the renderer makes of the source read this way
IdealDoc == Materialize(RemoveDefinitions(MarkRefs(source, 1), 1), rendererIds)

IdealText(i) == TextContent(IdealDoc[i])

\* the markers of a text, in order: where each stands (counting a marker as
\* long as its placeholder) and its label
RECURSIVE MarkersFrom(_, _, _)
MarkersFrom(t, from, offset) ==
    LET hits == {i \in from..Len(t) : IsMarker(t[i])}
        i    == MinOf(hits)
        at   == offset + (i - from)
    IN  IF hits = {} THEN <<>>
        ELSE <<[offset |-> at, number |-> NumberOfMarker(t[i])]>>
                 \o MarkersFrom(t, i + 1, at + 2 + Len(NumberOfMarker(t[i])))

Markers(t) == MarkersFrom(t, 1, 0)

\* the footnote-ref elements among the children of an element, in order: where
\* each stands in the text the linker worked on, its label and its footnote id
RECURSIVE SpansFrom(_, _)
SpansFrom(kids, offset) ==
    IF kids = <<>> THEN <<>>
    ELSE LET k == Head(kids)
         IN  IF k.kind = "span"
             THEN <<[offset |-> offset, number |-> k.text, fid |-> k.fid]>>
                      \o SpansFrom(Tail(kids), offset + 2 + Len(k.text))
             ELSE IF k.kind = "text" THEN SpansFrom(Tail(kids), offset + Len(k.text))
             ELSE SpansFrom(Tail(kids), offset)

Spans(el) == SpansFrom(el.kids, 0)

\* the children of an element read back: text as it is, a footnote-ref element
\* as the marker of its label; the paragraph anchor is left out
RECURSIVE ReadBack(_)
ReadBack(kids) ==
    IF kids = <<>> THEN <<>>
    ELSE LET k == Head(kids)
         IN  (IF k.kind = "span" THEN <<MarkerOf(k.text)>>
              ELSE IF k.kind = "text" THEN k.text
              ELSE <<>>) \o ReadBack(Tail(kids))

Range(q) == {q[k] : k \in 1..Len(q)}

IsProperPrefix(a, b) == Len(a) < Len(b) /\ SubSeq(b, 1, Len(a)) = a

Fn(number) == <<"f", "n">> \o number

\* a text in which something besides a marker spells a placeholder: a marker
\* directly followed by a digit, or the letters f, n and a digit in the prose
Collides(t) ==
    \/ \E k \in 1..(Len(t) - 1) : IsMarker(t[k]) /\ t[k + 1] \in Digits
    \/ \E k \in 1..(Len(t) - 2) : t[k] = "f" /\ t[k + 1] = "n" /\ t[k + 2] \in Digits

\* paragraph i of the source holds exactly two markers, [^a] then [^b], and
\* the placeholder of the first is a proper prefix of that of the second
IsPrefixPair(i) ==
    /\ IsParagraph(IdealDoc[i])
    /\ LET ms == Markers(IdealText(i))
       IN  /\ Len(ms) = 2
           /\ IsProperPrefix(Fn(ms[1].number), Fn(ms[2].number))

\* element el holds exactly the footnote-ref elements of the markers of text
\* t, in order, each with its label and id, and the text around them is intact
LinkedAs(el, t) ==
    /\ ReadBack(el.kids) = t
    /\ \A sp \in Range(Spans(el)) : sp.fid = Fn(sp.number)

----------------------------------------------------------------------------
(* The claims.                                                             *)

\* the build script has just written its output: artifact holds it from this
\* state on and is never written again
BuildDone == mode = "offline" /\ pc = "done"

\* C1: the ids in the navigation tree are pairwise distinct within one run,
\* whatever the heading texts, renderer-provided ids and levels.
C1_TreeIdsDistinct ==
    \A i, j \in 1..Len(tree) : i # j => tree[i].id # tree[j].id

\* C2: on the same source the App effect produces the same contentTree, the
\* same footnote table and the same html as the build script.
C2_DualModeEquivalence ==
    app.written =>
        /\ app.contentTree = artifact.contentTree
        /\ app.footnotes = artifact.footnotes
        /\ app.html = artifact.html

C4_SpansCarryMarkerLabel ==
    (BuildDone /\ \A i \in 1..Len(IdealDoc) : ~Collides(IdealText(i))) =>
        \A i \in 1..Len(IdealDoc) :
            \A sp \in Range(Spans(artifact.html[i])) :
                /\ [offset |-> sp.offset, number |-> sp.number]
                       \in Range(Markers(IdealText(i)))
                /\ sp.fid = Fn(sp.number)

\* C5: in the App's output, for a source with [^1] and [^10], both defined,
\* the text that held [^10] is one footnote-ref element with label 10 and
\* data-footnote-id fn10.  (Stated for the sources in which nothing but the
\* markers spells a placeholder.)
C5_InlineLinksTen ==
    (/\ app.written
     /\ \A i \in 1..Len(IdealDoc) : ~Collides(IdealText(i))
     /\ {<<"1">>, <<"1", "0">>} \subseteq NumberSet
     /\ {Fn(<<"1">>), Fn(<<"1", "0">>)} \subseteq DOMAIN app.footnotes)
        => \A i \in 1..Len(IdealDoc) :
               \A m \in Range(Markers(IdealText(i))) :
                   m.number = <<"1", "0">> =>
                       [offset |-> m.offset, number |-> <<"1", "0">>,
                        fid |-> Fn(<<"1", "0">>)] \in Range(Spans(app.html[i]))

\* C6: an element whose text holds the same marker more than once has its
\* first occurrence linked: a footnote-ref element stands where the first of
\* them stood (build script and App alike).
C6_FirstOccurrenceLinked ==
    \A out \in {artifact, app} :
        out.written =>
            \A i \in 1..Len(IdealDoc) :
                LET ms == Markers(IdealText(i))
                IN  \A j, k \in 1..Len(ms) :
                        (j < k /\ ms[j].number = ms[k].number
                               /\ \A h \in 1..(j - 1) : ms[h].number # ms[j].number)
                            => \E sp \in Range(Spans(out.html[i])) :
                                   /\ sp.number = ms[j].number
                                   /\ sp.offset = ms[j].offset

\* the footnote-ref elements of an html
AllSpans(html) == UNION {Range(Spans(html[i])) : i \in 1..Len(html)}

\* C7 as stated: every footnote-ref element of the output html has a
\* data-footnote-id that is a key of the output footnote table.
C7_EveryRefHasFootnote ==
    BuildDone =>
        \A sp \in AllSpans(artifact.html) : sp.fid \in DOMAIN artifact.footnotes

\* C7 as amended: every footnote-ref element has a data-footnote-id that is a
\* key of the footnote table, or is 'fn'+N for a marker [^N] of the source
\* with no definition block labelled N.
C7_RefHasFootnoteOrNoDefinition ==
    BuildDone =>
        \A sp \in AllSpans(artifact.html) :
            \/ sp.fid \in DOMAIN artifact.footnotes
            \/ \E n \in NumberSet :
                  /\ sp.fid = Fn(n)
                  /\ \A m \in Range(DefMatches(source, 1)) : m.number # n

C7_Witness ==
    /\ artifact.written
    /\ \E sp \in AllSpans(artifact.html) : sp.fid \in DOMAIN artifact.footnotes
    /\ \E sp \in AllSpans(artifact.html) : sp.fid \notin DOMAIN artifact.footnotes

\* C8: once the Heading Indexer has run, the tree has one entry per heading
\* element, in document order, and the i-th heading element has the id of the
\* i-th entry and the level of its tag.
C8_TreeMatchesHeadings ==
    pc \in {"link", "write", "done"} =>
        LET hp == HeadingPositions(doc)
        IN  /\ Len(tree) = Len(hp)
            /\ \A k \in 1..Len(hp) :
                  /\ doc[hp[k]].id = tree[k].id
                  /\ doc[hp[k]].tag = <<"h">> \o ToDecimal(tree[k].level)

C8_Witness ==
    /\ pc = "link"
    /\ Len(tree) = 3
    /\ \E k \in 1..Len(tree) : tree[k].text = <<>>
    /\ \E k \in 1..Len(tree) : rendererIds[k] # <<>> /\ rendererIds[k] # tree[k].id
    /\ \E k \in 1..Len(tree) : tree[k].level = 2

\* the children of a paragraph without the anchor
RECURSIVE WithoutAnchor(_)
WithoutAnchor(kids) ==
    IF kids = <<>> THEN <<>>
    ELSE IF Head(kids).kind = "a" THEN WithoutAnchor(Tail(kids))
    ELSE <<Head(kids)>> \o WithoutAnchor(Tail(kids))

HasText(el) == Trim(KidsText(WithoutAnchor(el.kids))) # <<>>

\* number of paragraphs with text among the first i elements of html
RECURSIVE Rank(_, _)
Rank(html, i) ==
    IF i = 0 THEN 0
    ELSE Rank(html, i - 1) + (IF IsParagraph(html[i]) /\ HasText(html[i]) THEN 1 ELSE 0)

\* C9: in the build script's output the k-th paragraph with text has id
\* 'p'+k, the class and the anchor as first child; a paragraph without text
\* has no id, no class and no anchor and uses no number.
C9_ParagraphSequencing ==
    BuildDone =>
        \A i \in 1..Len(artifact.html) :
            LET el == artifact.html[i]
                pid == <<"p">> \o ToDecimal(Rank(artifact.html, i))
            IN  IsParagraph(el) =>
                    IF HasText(el)
                    THEN /\ el.id = pid
                         /\ el.cls = "paragraph-with-anchor"
                         /\ el.kids # <<>>
                         /\ Head(el.kids).kind = "a"
                         /\ Head(el.kids).href = <<"#">> \o pid
                         /\ \A k \in 2..Len(el.kids) : el.kids[k].kind # "a"
                    ELSE /\ el.id = <<>>
                         /\ el.cls = ""
                         /\ \A k \in 1..Len(el.kids) : el.kids[k].kind # "a"

C9_Witness ==
    /\ artifact.written
    /\ Len(artifact.html) = 3
    /\ artifact.html[1].id = <<"p", "1">>
    /\ IsParagraph(artifact.html[2]) /\ artifact.html[2].id = <<>>
    /\ artifact.html[3].id = <<"p", "2">>

\* the candidate id of each heading before de-duplication, in document order
Candidates ==
    LET d  == Materialize(RemoveDefinitions(ReplaceRefs(source, 1).content, 1), rendererIds)
        hp == HeadingPositions(d)
    IN  [k \in 1..Len(hp) |->
            IF d[hp[k]].id # <<>> THEN d[hp[k]].id ELSE Slug(Trim(TextContent(d[hp[k]])))]

\* C10: the first heading with candidate c gets id c, the k-th (k >= 2) gets
\* c + '-' + k, whatever c is and whatever levels intervene.
C10_CollisionOrdering ==
    \A k \in 1..Len(tree) :
        LET c == Candidates[k]
            n == Cardinality({j \in 1..k : Candidates[j] = c})
        IN  tree[k].id = IF n = 1 THEN c ELSE c \o <<"-">> \o ToDecimal(n)

----------------------------------------------------------------------------
(* The claims about the Footnote Extractor.                                *)

\* the definition blocks of the source, in source order
SourceBlocks == DefMatches(source, 1)

\* C11: once the definitions are extracted, the footnote table has one entry
\* per label N of a definition block, under the key 'fn'+N; its content is the
\* rendering of the body of the last block labelled N in source order, and
\* the id field of every entry is its key.
C11_LastDefinitionWins ==
    pc # "extract" =>
        LET ms == SourceBlocks
        IN  /\ DOMAIN footnoteMap = {Fn(ms[k].number) : k \in 1..Len(ms)}
            /\ \A k \in 1..Len(ms) :
                  (\A j \in (k + 1)..Len(ms) : ms[j].number # ms[k].number)
                      => footnoteMap[Fn(ms[k].number)].content
                             = RenderFootnote(Trim(ms[k].body))
            /\ \A key \in DOMAIN footnoteMap : footnoteMap[key].id = key

C11_Witness ==
    /\ pc = "replace"
    /\ \E j, k \in 1..Len(SourceBlocks) :
          /\ j < k
          /\ SourceBlocks[j].number = SourceBlocks[k].number
          /\ SourceBlocks[j].body # SourceBlocks[k].body
          /\ k = Len(SourceBlocks)
          /\ footnoteMap[Fn(SourceBlocks[k].number)].content
                 = RenderFootnote(Trim(SourceBlocks[k].body))

\* C16: once the removal pass is over, the stripped source holds no text that
\* matches the definition-block pattern.
C16_NoDefinitionLeft ==
    pc \in {"render", "index", "link", "write", "done", "loaded"} =>
        NextDefMatch(processedContent, 1) = 0

\* the source after the references were replaced, before the removal pass
Substituted == ReplaceRefs(source, 1).content

\* C17: every block the removal pass removed is a block the scan pass
\* recorded, and the placeholder of every reference on the reference list is
\* still in the stripped source.
C17_StripsWhatItRecorded ==
    pc \in {"render", "index", "link", "write", "done", "loaded"} =>
        /\ \A m \in Range(DefMatches(Substituted, 1)) : m \in Range(SourceBlocks)
        /\ \A r \in Range(footnoteRefs) : Includes(processedContent, r.placeholder)

----------------------------------------------------------------------------
(* The claims about the running App.                                       *)

\* a step of one of the footnote handlers for an event on a footnote-ref
\* element whose data-footnote-id is no key of the table
ActivatesMissing ==
    /\ HandleFootnoteInteraction \/ HandleFootnoteKeyPress
    /\ event'.cls = "footnote-ref"
    /\ event'.fid \notin DOMAIN footnotes

\* C12: a click, a touch or a key press on a footnote-ref element whose
\* data-footnote-id is no key of the footnote table leaves activeFootnote as
\* it was; and whenever a popover is rendered, activeFootnote holds an id that
\* is a key of the table.
C12_MissingEntryInert ==
    /\ [][ActivatesMissing => activeFootnote' = activeFootnote]_vars
    /\ [](Popover.shown => (activeFootnote.set /\ activeFootnote.id \in DOMAIN footnotes))

C12_Witness ==
    /\ pc = "loaded"
    /\ event.type = "keydown" /\ event.key = "Enter"
    /\ event.cls = "footnote-ref"
    /\ event.fid \notin DOMAIN footnotes
    /\ Popover.shown

\* C13: when the App effect has run a second time on the same source, the
\* navigation tree, the footnote table and the reference list are those of
\* the first time; and whenever a run begins, lastIndex of both regular
\* expressions is 0.
C13_RunDeterminism ==
    /\ (mode = "inline" /\ pc = "done" /\ previous.ran) =>
           /\ tree = previous.contentTree
           /\ footnoteMap = previous.footnotes
           /\ footnoteRefs = previous.footnoteRefs
    /\ pc = "extract" => lastIndex = NewRegExps

C13_Witness ==
    /\ mode = "inline" /\ pc = "done" /\ previous.ran
    /\ \E j, k \in 1..Len(tree) : j # k /\ tree[j].text = tree[k].text
    /\ DOMAIN footnoteMap # {}
    /\ footnoteRefs # <<>>

----------------------------------------------------------------------------
(* The claims about heading text and ids.                                  *)

\* a string without the hyphens at its two ends
RECURSIVE TrimHyphens(_)
TrimHyphens(s) ==
    IF s # <<>> /\ Head(s) = "-" THEN TrimHyphens(Tail(s))
    ELSE IF s # <<>> /\ s[Len(s)] = "-" THEN TrimHyphens(SubSeq(s, 1, Len(s) - 1))
    ELSE s

\* the candidate id the slug rule describes for a heading text
DescribedSlug(text) ==
    TrimHyphens(CollapseHyphens(SpacesToHyphen(StripPunctuation(ToLowerCase(text)))))

\* C14: a heading the renderer gave no id, the first with its text, gets the
\* lower-cased text with every character other than word characters, white
\* space and hyphen removed, white space runs replaced by one hyphen, repeated
\* hyphens collapsed and edge hyphens trimmed: its id neither starts nor ends
\* with a hyphen.
C14_SlugDerivation ==
    \A k \in 1..Len(tree) :
        (/\ (k > Len(rendererIds) \/ rendererIds[k] = <<>>)
         /\ \A j \in 1..(k - 1) : tree[j].text # tree[k].text)
            => /\ Candidates[k] = DescribedSlug(tree[k].text)
               /\ Candidates[k] = <<>> \/
                      (Head(Candidates[k]) # "-" /\ Candidates[k][Len(Candidates[k])] # "-")

\* the elements of an html that are headings, and those that are paragraphs
HeadingsOf(html) == {i \in 1..Len(html) : IsHeading(html[i])}

ParagraphsOf(html) == {i \in 1..Len(html) : IsParagraph(html[i])}

\* C18: in the build script's output no heading has the id of a paragraph.
C18_HeadingAndParagraphIdsDistinct ==
    (mode = "offline" /\ pc = "done") =>
        \A h \in HeadingsOf(artifact.html), p \in ParagraphsOf(artifact.html) :
            artifact.html[p].id # <<>> => artifact.html[h].id # artifact.html[p].id

\* C19: in the output of either driver, the text of the k-th entry of the
\* navigation tree is the trimmed text content of the k-th heading element.
C19_TreeTextIsHeadingText ==
    \A out \in {artifact, app} :
        out.written =>
            LET hp == HeadingPositions(out.html)
            IN  \A k \in 1..Len(hp) :
                    out.contentTree[k].text
                        = Trim(KidsText(WithoutAnchor(out.html[hp[k]].kids)))

----------------------------------------------------------------------------
(* The claims about the splice and the completeness of the linker.         *)

\* where placeholder p occurs in text t
Occurrences(t, p) == {i \in 1..Len(t) : StartsWithAt(t, p, i)}

\* the reference element the splice is said to insert for reference r
DescribedSpan(r) ==
    [kind |-> "span", cls |-> "footnote-ref", role |-> "button", tabindex |-> "0",
     aria |-> <<"F", "o", "o", "t", "n", "o", "t", "e", " ">> \o r.number,
     text |-> r.number, fid |-> r.id, href |-> <<>>]

\* the children an element is said to have after reference r was linked: a
\* text node with text B + placeholder + A and no other occurrence becomes
\* text B, the reference element and, if A is not empty, text A; every other
\* child stays as it is, in its place
RECURSIVE DescribedKids(_, _)
DescribedKids(kids, r) ==
    IF kids = <<>> THEN <<>>
    ELSE LET k   == Head(kids)
             occ == Occurrences(k.text, r.placeholder)
             i   == CHOOSE x \in occ : TRUE
             B   == SubSeq(k.text, 1, i - 1)
             A   == SubSeq(k.text, i + Len(r.placeholder), Len(k.text))
         IN  (IF k.kind = "text" /\ Cardinality(occ) = 1
              THEN <<TextNode(B), DescribedSpan(r)>>
                       \o (IF A # <<>> THEN <<TextNode(A)>> ELSE <<>>)
              ELSE <<k>>) \o DescribedKids(Tail(kids), r)

\* C15: one iteration of the linker's loop, for reference r, replaces every
\* text node that holds the placeholder of r exactly once by text before,
\* reference element, text after (if not empty), in the place of the node,
\* and changes nothing else: the other children, the elements, the tree, the
\* table and the reference list are as before.
C15_SplicePreservesSurroundings ==
    [][LinkFootnote =>
          LET r == footnoteRefs[rIndex + 1]
          IN  /\ Len(doc') = Len(doc)
              /\ \A i \in 1..Len(doc) :
                    /\ doc'[i].tag = doc[i].tag
                    /\ doc'[i].id = doc[i].id
                    /\ doc'[i].cls = doc[i].cls
                    /\ doc'[i].kids = DescribedKids(doc[i].kids, r)
              /\ UNCHANGED <<tree, footnoteMap, footnoteRefs, processedContent>>]_vars

C15_Witness ==
    /\ pc = "link"
    /\ rIndex = 2
    /\ \E i \in 1..Len(doc) :
          LET kids == doc[i].kids
          IN  /\ Len(kids) >= 4
              /\ kids[Len(kids)].kind = "span"
              /\ \E k \in 2..(Len(kids) - 1) :
                    /\ kids[k - 1].kind = "text"
                    /\ kids[k].kind = "span"
                    /\ kids[k + 1].kind = "text" /\ kids[k + 1].text # <<>>

\* C20: in the build script's output, for a source in which no text node
\* holds the same marker twice, every marker of the source has become a
\* footnote-ref element and no text node holds the placeholder of a reference
\* of the list.  (Stated for the sources in which nothing but the markers
\* spells a placeholder.)
C20_LinkingComplete ==
    (/\ mode = "offline" /\ pc = "done"
     /\ \A i \in 1..Len(IdealDoc) :
           LET ms == Markers(IdealText(i))
           IN  /\ ~Collides(IdealText(i))
               /\ \A j, k \in 1..Len(ms) : j # k => ms[j].number # ms[k].number)
        => /\ \A i \in 1..Len(IdealDoc) :
                 \A m \in Range(Markers(IdealText(i))) :
                     [offset |-> m.offset, number |-> m.number, fid |-> Fn(m.number)]
                         \in Range(Spans(artifact.html[i]))
           /\ \A i \in 1..Len(artifact.html) :
                 \A k \in 1..Len(artifact.html[i].kids) :
                     artifact.html[i].kids[k].kind = "text" =>
                         \A r \in Range(footnoteRefs) :
                             ~Includes(artifact.html[i].kids[k].text, r.placeholder)

====
